---- MODULE Spec2Model ----
(***************************************************************************)
(* SnapLog: photo metadata normalisation, diary generation, and the        *)
(* per-day JSON record store.                                              *)
(*   src/snaplog_natural.py  extract_image_metadata, extract_practical_info*)
(*                           encode_image_to_base64, generate_natural_diary*)
(*   src/app_simple.py       save_diary, load_saved_diaries,               *)
(*                           handle_diary_generation,                      *)
(*                           display_generated_diary                       *)
(* Python strings are sequences of one-character strings; None and other   *)
(* optional values are records tagged with "some".                         *)
(***************************************************************************)
EXTENDS Integers, Sequences, FiniteSets, TLC

VARIABLES
    metadata,   \* SpecNormalize: the tag map handed to extract_practical_info
    info,       \* SpecNormalize: the outcome of the call
    npc,        \* SpecNormalize: "ready" before the call, "done" after
    gen,        \* record of the generate_natural_diary call under observation
    hpc,        \* position of the run: in handle_diary_generation, or "saved"
                \* between a save that returned and the rerun that follows
    uploaded,   \* SpecApp: uploaded_files of the running handler
    style_desc, \* SpecApp: selected_style_desc of the running handler
    diary_date, \* SpecApp: diary_date of the running handler (the date input)
    temp_dir,   \* SpecApp: the handler's temporary directory exists
    temp_files, \* SpecApp: the files in it (temp_paths name them in order)
    session,    \* st.session_state: generated_diary (value) and
                \* diary_metadata (metadata), when the keys are present
    exits,      \* SpecApp: exit paths the handler has taken so far
    disk,       \* SpecStore: the storage directory, file name -> file text
    now,        \* SpecStore: the wall clock, in seconds since day 0, 00:00:00
    ticks,      \* SpecStore: how often the clock has advanced
    saves,      \* SpecStore: how many save_diary calls have been made
    listing,    \* SpecStore: what load_saved_diaries returned in this run
    diagnostics,\* SpecStore: the st.error reports of that call
    lastOp,     \* SpecStore: the latest store operation and how it ended
    prevSave,   \* SpecStore: the successful save before the latest one
    lastSave    \* SpecStore: the latest successful save

nvars == <<metadata, info, npc>>
gvars == <<gen, hpc, uploaded, style_desc, diary_date, temp_dir, temp_files, session,
          exits>>
svars == <<disk, now, ticks, saves, listing, diagnostics, lastOp, prevSave, lastSave>>
vars == <<nvars, gvars, svars>>

-----------------------------------------------------------------------------
(* Python values                                                           *)

None == [some |-> FALSE]
Some(v) == [some |-> TRUE, v |-> v]

DigitChars == <<"0", "1", "2", "3", "4", "5", "6", "7", "8", "9">>
Digit(n) == DigitChars[n + 1]
Pad2(n) == <<Digit((n \div 10) % 10), Digit(n % 10)>>
Pad4(n) == Pad2(n \div 100) \o Pad2(n % 100)

\* str.replace(old, new) for one-character old and new
Replace(s, old, new) == [i \in 1..Len(s) |-> IF s[i] = old THEN new ELSE s[i]]

\* s[a:b] of Python (0-based, end exclusive, clipped to the string)
Slice(s, a, b) ==
    LET hi == IF b < Len(s) THEN b ELSE Len(s)
    IN  IF a >= hi THEN <<>> ELSE SubSeq(s, a + 1, hi)

\* c in s
Contains(s, c) == \E i \in 1..Len(s) : s[i] = c

\* A tuple value and the other shapes a tag may hold
Tup(comps) == [py |-> "tuple", comps |-> comps]
NotTuple == [py |-> "list", comps |-> <<>>]
Num(n) == [num |-> TRUE, n |-> n]
NonNum == [num |-> FALSE, n |-> 0]

-----------------------------------------------------------------------------
(* extract_practical_info: time                                            *)

time_fields == <<"DateTime", "DateTimeOriginal", "DateTimeDigitized">>

\* lines 62 and 65: the tag is present, truthy, holds ':' and 19 characters
TimeTagUsable(md, field) ==
    /\ field \in DOMAIN md
    /\ md[field] # <<>>
    /\ Contains(md[field], ":")
    /\ Len(md[field]) >= 19

\* lines 67-69: "2023:12:25 14:30:45" -> "2023-12-25 14:30"
FormatTime(time_str) ==
    Replace(Slice(time_str, 0, 10), ":", "-") \o <<" ">> \o Slice(time_str, 11, 16)

\* lines 61-72: the first usable field of `fields`, from position i on, wins
RECURSIVE ScanTimeFields(_, _, _)
ScanTimeFields(md, fields, i) ==
    IF i > Len(fields) THEN None
    ELSE IF TimeTagUsable(md, fields[i]) THEN Some(FormatTime(md[fields[i]]))
    ELSE ScanTimeFields(md, fields, i + 1)

ExtractTime(md) == ScanTimeFields(md, time_fields, 1)

-----------------------------------------------------------------------------
(* extract_practical_info: location.  An evaluation either yields a value  *)
(* ("ok"), yields None ("none"), or raises ("raise").  Degrees are kept    *)
(* exactly, in arc-seconds (3600 * degrees).                               *)

Ok(v) == [st |-> "ok", v |-> v]
NoneVal == [st |-> "none", v |-> 0]
Raise == [st |-> "raise", v |-> 0]

\* lines 79-83
convert_to_degrees(value) ==
    IF value.py = "tuple" /\ Len(value.comps) = 3
    THEN IF \A i \in 1..3 : value.comps[i].num
         THEN Ok(value.comps[1].n * 3600 + value.comps[2].n * 60 + value.comps[3].n)
         ELSE Raise                     \* float() of a non-number
    ELSE NoneVal

\* lines 86-89 and 91-94: one coordinate with its hemisphere reference
Coordinate(gps_info, vkey, rkey, negref) ==
    IF vkey \notin DOMAIN gps_info THEN NoneVal
    ELSE LET c == convert_to_degrees(gps_info[vkey])
         IN  IF c.st = "raise" THEN Raise
             ELSE IF rkey \in DOMAIN gps_info /\ gps_info[rkey] = negref
                  THEN IF c.st = "none" THEN Raise      \* -None
                       ELSE Ok(0 - c.v)
                  ELSE c

\* f"{x:.2f}": hundredths of a degree, nearest (inputs avoid exact ties)
Round2(arcsec) ==
    LET mag == IF arcsec < 0 THEN 0 - arcsec ELSE arcsec
        r == (mag * 100 + 1800) \div 3600
    IN  IF arcsec < 0 THEN 0 - r ELSE r

\* lines 77-98, the body of the try
GpsBody(gps) ==
    IF gps.py # "dict" THEN Raise                       \* `2 in gps_info`
    ELSE LET lat == Coordinate(gps.map, 2, 1, "S")
         IN  IF lat.st = "raise" THEN Raise
             ELSE LET lon == Coordinate(gps.map, 4, 3, "W")
                  IN  IF lon.st = "raise" THEN Raise
                      ELSE IF lat.st = "ok" /\ lon.st = "ok"
                           THEN Ok([lat |-> Round2(lat.v), lon |-> Round2(lon.v)])
                           ELSE NoneVal

\* the except clause does not catch what the body raises
TryGps_NoCatch(gps) ==
    LET r == GpsBody(gps)
    IN  IF r.st = "ok" THEN [location |-> Some(r.v), raised |-> FALSE]
        ELSE [location |-> None, raised |-> r.st = "raise"]

\* lines 76-100: try ... except: pass
TryGps(gps) ==
    LET r == GpsBody(gps)
    IN  IF r.st = "ok" THEN [location |-> Some(r.v), raised |-> FALSE]
        ELSE [location |-> None, raised |-> FALSE]

\* line 75: the group is present and truthy
GpsPresent(md) ==
    /\ "GPSInfo" \in DOMAIN md
    /\ ~(md["GPSInfo"].py = "dict" /\ DOMAIN md["GPSInfo"].map = {})

\* lines 52-102
extract_practical_info(md) ==
    LET g == IF GpsPresent(md) THEN TryGps(md["GPSInfo"])
             ELSE [location |-> None, raised |-> FALSE]
    IN  [time |-> ExtractTime(md), location |-> g.location, raised |-> g.raised]

-----------------------------------------------------------------------------
(* Files.  A file on disk is [img, data]: img is what Image.open yields    *)
(* (None when the file is missing or is no image), an image being          *)
(* [size, format, mode, exif] with exif the tag map of _getexif() or None; *)
(* data is the bytes open(path, 'rb') reads (None when it cannot be read). *)

EmptyMap == [x \in {} |-> 0]

\* lines 30-50: intrinsic properties plus the EXIF tags; {} on any failure
extract_image_metadata(file) ==
    IF ~file.img.some THEN EmptyMap
    ELSE LET intrinsic == [k \in {"size", "format", "mode"} |-> file.img.v[k]]
         IN  IF file.img.v.exif.some
             THEN file.img.v.exif.v @@ intrinsic
             ELSE intrinsic

\* base64 of one group of 1 to 3 bytes; 64 stands for the padding '='
B64Group(b) ==
    LET n == b[1] * 65536 + (IF Len(b) > 1 THEN b[2] * 256 ELSE 0)
                          + (IF Len(b) > 2 THEN b[3] ELSE 0)
    IN  <<n \div 262144, (n \div 4096) % 64,
          IF Len(b) > 1 THEN (n \div 64) % 64 ELSE 64,
          IF Len(b) > 2 THEN n % 64 ELSE 64>>

RECURSIVE b64encode(_)
b64encode(bytes) ==
    IF bytes = <<>> THEN <<>>
    ELSE IF Len(bytes) <= 3 THEN B64Group(bytes)
    ELSE B64Group(SubSeq(bytes, 1, 3)) \o b64encode(SubSeq(bytes, 4, Len(bytes)))

\* lines 104-107: raises when the file cannot be opened
encode_image_to_base64(file) ==
    IF file.data.some THEN Ok(b64encode(file.data.v)) ELSE Raise

\* lines 146-149
ImageContent(img_data) ==
    [type |-> "image_url", image_url |-> <<"data:image/jpeg;base64,", img_data>>]

\* sep.join(parts)
RECURSIVE Join(_, _)
Join(parts, sep) ==
    IF parts = <<>> THEN <<>>
    ELSE IF Len(parts) = 1 THEN parts[1]
    ELSE parts[1] \o <<sep>> \o Join(Tail(parts), sep)

NoMetadata == <<"no metadata">>                  \* line 141, the else branch

\* lines 132-141: the hint of image number i (1-based, as printed)
Hint(i, file) ==
    LET inf == extract_practical_info(extract_image_metadata(file))
        hint_parts ==
            (IF inf.time.some THEN <<<<"time: ">> \o inf.time.v>> ELSE <<>>)
            \o (IF inf.location.some THEN <<<<"location: yes">>>> ELSE <<>>)
    IN  <<"photo", i, ": ">>
            \o (IF hint_parts # <<>> THEN Join(hint_parts, " | ") ELSE NoMetadata)

\* an image whose extraction fails is skipped before its hint is appended
RECURSIVE BuildHints_DropFailed(_, _)
BuildHints_DropFailed(image_paths, i) ==
    IF i > Len(image_paths) THEN <<>>
    ELSE (IF image_paths[i].img.some THEN <<Hint(i, image_paths[i])>> ELSE <<>>)
         \o BuildHints_DropFailed(image_paths, i + 1)

\* lines 128-141: practical_hints, one append per loop iteration from i on
RECURSIVE BuildHints(_, _)
BuildHints(image_paths, i) ==
    IF i > Len(image_paths) THEN <<>>
    ELSE <<Hint(i, image_paths[i])>> \o BuildHints(image_paths, i + 1)

\* lines 143-152: image_contents; an encoding error skips the image
RECURSIVE BuildContents(_, _)
BuildContents(image_paths, i) ==
    IF i > Len(image_paths) THEN <<>>
    ELSE LET e == encode_image_to_base64(image_paths[i])
         IN  (IF e.st = "ok" THEN <<ImageContent(e.v)>> ELSE <<>>)
             \o BuildContents(image_paths, i + 1)

\* lines 155-177: the style goes into the template verbatim
Prompt(practical_hints, style_preference) ==
    [style |-> style_preference,
     metadata_text |-> IF practical_hints # <<>> THEN Join(practical_hints, "\n")
                       ELSE <<"no metadata info">>]

\* lines 189-196: the fixed narrative around str(e)
Fallback(e) == <<"FALLBACK-HEAD: ", e, "FALLBACK-NARRATIVE">>

NoGen ==
    [called |-> FALSE, image_paths |-> <<>>, style |-> "", env |-> <<>>,
     raised |-> None, practical_hints |-> <<>>, sent |-> FALSE,
     message_content |-> <<>>, result |-> None]

\* lines 109-196.  env.client is the error get_gemini_model raises (None when
\* it returns a client); env.invoke is the outcome of model.invoke and
\* response.content: Ok(text), or an error raised inside the try.
generate_natural_diary(image_paths, style_preference, env) ==
    LET base == [NoGen EXCEPT !.called = TRUE, !.image_paths = image_paths,
                              !.style = style_preference, !.env = env]
    IN  IF env.client.some
        THEN [base EXCEPT !.raised = Some(env.client.v)]       \* line 122
        ELSE LET practical_hints == BuildHints(image_paths, 1)
                 image_contents == BuildContents(image_paths, 1)
                 prompt == Prompt(practical_hints, style_preference)
                 message_content ==
                     <<[type |-> "text", text |-> prompt]>> \o image_contents
             IN  [base EXCEPT
                    !.practical_hints = practical_hints,
                    !.sent = TRUE,
                    !.message_content = message_content,
                    !.result = IF env.invoke.ok THEN Some(<<env.invoke.v>>)
                               ELSE Some(Fallback(env.invoke.v))]

-----------------------------------------------------------------------------
(* handle_diary_generation (app_simple.py lines 304-378), after the        *)
(* generate button was pressed                                             *)

STYLE_OPTIONS ==
    {"natural and relaxed", "emotional and lyrical", "concise and clear",
     "detailed and specific"}

\* line 234: selected_style = STYLE_OPTIONS[selected_style_desc]
SelectedStyle(desc) ==
    CASE desc = "natural and relaxed" -> "natural"
      [] desc = "emotional and lyrical" -> "lyrical"
      [] desc = "concise and clear" -> "concise"
      [] desc = "detailed and specific" -> "detailed"

NoSession == [present |-> FALSE, value |-> None, metadata |-> None]

\* lines 357-362: diary_metadata
DiaryMetadata(style, date, files) ==
    [style |-> SelectedStyle(style), style_desc |-> style, date |-> date,
     image_count |-> Len(files)]

\* the directory is removed only when the block is left without an exception
TempDirExit_OnSuccessOnly(files, exc) ==
    IF exc THEN [exists |-> TRUE, files |-> files]
    ELSE [exists |-> FALSE, files |-> <<>>]

\* line 336: leaving `with tempfile.TemporaryDirectory()` removes the
\* directory and everything in it, with or without an exception in flight
TempDirExit(files, exc) == [exists |-> FALSE, files |-> <<>>]

\* lines 320-336: session keys initialised, the temporary directory created
HdgClick(files, style, date) ==
    /\ hpc = "idle"
    /\ hpc' = "writing"
    /\ uploaded' = files
    /\ style_desc' = style
    /\ diary_date' = date
    /\ session' = IF session.present THEN session
                  ELSE [present |-> TRUE, value |-> None, metadata |-> None]
    /\ temp_dir' = TRUE
    /\ temp_files' = <<>>
    /\ gen' = NoGen
    /\ UNCHANGED exits

\* lines 337-341, one iteration that completes
HdgWriteTemp ==
    /\ hpc = "writing"
    /\ Len(temp_files) < Len(uploaded)
    /\ temp_files' = Append(temp_files, uploaded[Len(temp_files) + 1])
    /\ UNCHANGED <<gen, hpc, uploaded, style_desc, diary_date, temp_dir, session, exits>>

\* lines 369-374: the except branch
ExceptBranch == NoSession

\* lines 337-341, one iteration in which open or write raises: the partial
\* copy is in the directory when the with block is left (lines 369-374 follow)
HdgWriteTempFails ==
    /\ hpc = "writing"
    /\ Len(temp_files) < Len(uploaded)
    /\ LET partial == [img |-> None, data |-> Some(<<>>)]
           left == TempDirExit(Append(temp_files, partial), TRUE)
       IN  /\ temp_files' = left.files
           /\ temp_dir' = left.exists
    /\ session' = ExceptBranch
    /\ hpc' = "returned"
    /\ exits' = exits \cup {"write_error"}
    /\ UNCHANGED <<gen, uploaded, style_desc, diary_date>>

\* lines 352-374: the with block is left after generate returned or raised
\* (record g), then the session state is set, or the except branch runs
HdgLeave(g, left) ==
    /\ gen' = g
    /\ temp_files' = left.files
    /\ temp_dir' = left.exists
    /\ session' = IF g.raised.some THEN ExceptBranch
                  ELSE [present |-> TRUE, value |-> g.result,
                        metadata |-> Some(DiaryMetadata(style_desc, diary_date, uploaded))]
    /\ exits' = exits \cup {IF g.raised.some THEN "generate_error" ELSE "success"}
    /\ hpc' = "returned"
    /\ UNCHANGED <<uploaded, style_desc, diary_date>>

HdgAfterGenerate(g) == HdgLeave(g, TempDirExit(temp_files, g.raised.some))

\* lines 343-350: generate over the temporary copies, all of them written
HdgGenerate(env) ==
    /\ hpc = "writing"
    /\ Len(temp_files) = Len(uploaded)
    /\ HdgAfterGenerate(generate_natural_diary(temp_files, style_desc, env))

\* generate_natural_diary called directly (as compare_diary_styles does)
CallGenerate(image_paths, style, env) ==
    /\ ~gen.called
    /\ gen' = generate_natural_diary(image_paths, style, env)
    /\ UNCHANGED <<hpc, uploaded, style_desc, diary_date, temp_dir, temp_files, session,
                   exits>>

-----------------------------------------------------------------------------
(* The record store (app_simple.py lines 69-129).  A dict is the sequence  *)
(* of its [k, v] items in insertion order.  A file text is [json, data]:   *)
(* json says whether json.load can parse it, data is the dict it holds.    *)

DictHas(d, k) == \E i \in 1..Len(d) : d[i].k = k
DictGet(d, k) == d[CHOOSE i \in 1..Len(d) : d[i].k = k].v
DictKeys(d) == {d[i].k : i \in 1..Len(d)}
\* d[k] = v
DictSet(d, k, v) ==
    IF DictHas(d, k)
    THEN [i \in 1..Len(d) |-> IF d[i].k = k THEN [k |-> k, v |-> v] ELSE d[i]]
    ELSE Append(d, [k |-> k, v |-> v])

JsonText(data) == [json |-> TRUE, data |-> data]         \* json.dump
Garbage == [json |-> FALSE, data |-> <<>>]               \* cut-off or foreign text

\* code points of the characters of day-file names
CharCode ==
    [c \in {"-", ".", "0", "1", "2", "3", "4", "5", "6", "7", "8", "9",
            "j", "n", "o", "s"} |->
        CASE c = "-" -> 45 [] c = "." -> 46
          [] c = "0" -> 48 [] c = "1" -> 49 [] c = "2" -> 50 [] c = "3" -> 51
          [] c = "4" -> 52 [] c = "5" -> 53 [] c = "6" -> 54 [] c = "7" -> 55
          [] c = "8" -> 56 [] c = "9" -> 57
          [] c = "j" -> 106 [] c = "n" -> 110 [] c = "o" -> 111 [] c = "s" -> 115]

\* a < b for Python strings
RECURSIVE StrLess(_, _)
StrLess(a, b) ==
    IF b = <<>> THEN FALSE
    ELSE IF a = <<>> THEN TRUE
    ELSE IF a[1] # b[1] THEN CharCode[a[1]] < CharCode[b[1]]
    ELSE StrLess(Tail(a), Tail(b))

JsonSuffix == <<".", "j", "s", "o", "n">>

\* the wall clock: day number, then hour, minute and second of the day
ClockDay(t) == t \div 86400
ClockHour(t) == (t % 86400) \div 3600
ClockMinute(t) == (t % 3600) \div 60
ClockSecond(t) == t % 60

\* the calendar dates of day 0, day 1, ...
Calendar == <<<<2024, 1, 31>>, <<2024, 2, 1>>, <<2024, 2, 2>>, <<2024, 2, 3>>,
              <<2024, 2, 4>>, <<2024, 2, 5>>, <<2024, 2, 6>>>>
ClockDate(t) == Calendar[ClockDay(t) + 1]

\* date.strftime('%Y-%m-%d')
StrfDate(d) == Pad4(d[1]) \o <<"-">> \o Pad2(d[2]) \o <<"-">> \o Pad2(d[3])
\* datetime.strftime('%H:%M:%S')
StrfTime(t) ==
    Pad2(ClockHour(t)) \o <<":">> \o Pad2(ClockMinute(t)) \o <<":">> \o Pad2(ClockSecond(t))
\* datetime.isoformat(): the fraction is printed unless it is zero
Pad6(n) == Pad2(n \div 10000) \o Pad4(n % 10000)
IsoFormat(t, us) ==
    StrfDate(ClockDate(t)) \o <<"T">> \o StrfTime(t)
        \o (IF us = 0 THEN <<>> ELSE <<".">> \o Pad6(us))

\* lines 88-89: the file of a diary date
DayFile(date) == StrfDate(date) \o JsonSuffix

\* lines 99-105: the entry and its key; t1 and t2 are the two datetime.now()
NewEntry(call, t2, us) ==
    [content |-> call.content, style |-> call.style,
     image_count |-> call.image_count, created_at |-> IsoFormat(t2, us)]

\* the existing entries are not read back: the day document starts empty
Loaded_StartEmpty(d, name) == Ok(<<>>)

\* lines 92-96: the day document read back, {} when there is none yet
Loaded(d, name) ==
    IF name \notin DOMAIN d THEN Ok(<<>>)
    ELSE IF d[name].json THEN Ok(d[name].data)
    ELSE Raise                                           \* json.load

\* lines 108-109: open(filepath, 'w') truncates, json.dump writes
Written(d, name, data, io) ==
    IF io = "open_fails" THEN d
    ELSE IF io = "write_fails" THEN (name :> Garbage) @@ d
    ELSE (name :> JsonText(data)) @@ d

SaveResult(d, name, key, entry, old, io) ==
    IF old.st = "raise" THEN [disk |-> d, raised |-> TRUE, key |-> key, entry |-> entry]
    ELSE [disk |-> Written(d, name, DictSet(old.v, key, entry), io),
          raised |-> io # "ok", key |-> key, entry |-> entry]

\* lines 83-111
save_diary(d, call, t1, t2, us, io) ==
    SaveResult(d, DayFile(call.date), StrfTime(t1), NewEntry(call, t2, us),
               Loaded(d, DayFile(call.date)), io)

IsJsonName(name) ==
    /\ Len(name) >= Len(JsonSuffix)
    /\ SubSeq(name, Len(name) - Len(JsonSuffix) + 1, Len(name)) = JsonSuffix

\* Path.stem of a *.json name
Stem(name) == SubSeq(name, 1, Len(name) - Len(JsonSuffix))

\* sorted without reverse=True
RECURSIVE SortedAscending(_)
SortedAscending(names) ==
    IF names = {} THEN <<>>
    ELSE LET least == CHOOSE n \in names : \A m \in names \ {n} : StrLess(n, m)
         IN  <<least>> \o SortedAscending(names \ {least})

\* line 117: diary_files.sort(reverse=True)
RECURSIVE SortedDescending(_)
SortedDescending(names) ==
    IF names = {} THEN <<>>
    ELSE LET top == CHOOSE n \in names : \A m \in names \ {n} : StrLess(m, n)
         IN  <<top>> \o SortedDescending(names \ {top})

\* lines 120-127 over diary_files from position i on: [diaries, errors]
RECURSIVE ReadFiles(_, _, _, _)
ReadFiles(d, diary_files, i, acc) ==
    IF i > Len(diary_files) THEN acc
    ELSE IF d[diary_files[i]].json
    THEN ReadFiles(d, diary_files, i + 1,
             [acc EXCEPT !.diaries =
                 DictSet(@, Stem(diary_files[i]), d[diary_files[i]].data)])
    ELSE ReadFiles(d, diary_files, i + 1,
             [acc EXCEPT !.errors = Append(@, diary_files[i])])

\* lines 113-129
load_saved_diaries(d) ==
    ReadFiles(d, SortedDescending({n \in DOMAIN d : IsJsonName(n)}), 1,
              [diaries |-> <<>>, errors |-> <<>>])

NoSave == [n |-> 0, file |-> <<>>, key |-> <<>>, entry |-> <<>>, t |-> 0]

\* lines 415-434: the call of save_diary with outcome r, made at clock t1.
\* When it returned, the run goes on to the sleep of line 427; when it
\* raised, the except branch reports and the run goes on as it was.
SaveDone(r, name, t1) ==
    /\ disk' = r.disk
    /\ lastOp' = IF r.raised THEN "save_raised" ELSE "save"
    /\ prevSave' = IF r.raised THEN prevSave ELSE lastSave
    /\ lastSave' = IF r.raised THEN lastSave
                   ELSE [n |-> lastSave.n + 1, file |-> name, key |-> r.key,
                         entry |-> r.entry, t |-> t1]
    /\ hpc' = IF r.raised THEN "returned" ELSE "saved"
    /\ UNCHANGED <<listing, diagnostics, session>>

\* line 249: saved_diaries of the run, and the st.error reports of the call
Listed(r) ==
    /\ listing' = r.diaries
    /\ diagnostics' = r.errors
    /\ lastOp' = "listAll"

ListDone(r) ==
    /\ Listed(r)
    /\ UNCHANGED <<disk, now, ticks, saves, prevSave, lastSave>>

\* the script is run again: main() lists the saved diaries (line 249) and
\* the next press finds the handler at its start
HdgRerun ==
    /\ hpc = "returned"
    /\ hpc' = "idle"
    /\ uploaded' = <<>>
    /\ gen' = NoGen
    /\ ListDone(load_saved_diaries(disk))
    /\ UNCHANGED <<style_desc, diary_date, temp_dir, temp_files, session, exits>>

-----------------------------------------------------------------------------
(* SpecNormalize: extract_practical_info applied to bounded tag maps       *)

ExifTime(y, mo, d, h, mi, s) ==
    Pad4(y) \o <<":">> \o Pad2(mo) \o <<":">> \o Pad2(d) \o <<" ">>
        \o Pad2(h) \o <<":">> \o Pad2(mi) \o <<":">> \o Pad2(s)

TimeA == ExifTime(2023, 12, 25, 14, 30, 45)
TimeB == ExifTime(2024, 1, 2, 3, 4, 5)
TimeShort == Slice(TimeA, 0, 10)                        \* "2023:12:25"
TimeNoColon == Replace(TimeA, ":", "/")                 \* 19 characters, no ':'

\* a time tag is absent, or holds one of these strings ("" is falsy)
TimeTagChoices == {None, Some(TimeA), Some(TimeB), Some(TimeShort),
                   Some(TimeNoColon), Some(<<>>)}

Seoul == Tup(<<Num(37), Num(33), Num(12)>>)             \* 37 deg 33' 12"
SeoulLon == Tup(<<Num(126), Num(58), Num(36)>>)         \* 126 deg 58' 36"
CoordChoices(good) ==
    {None, Some(good), Some(Tup(<<Num(37), NonNum, Num(12)>>)),
     Some(Tup(<<Num(37), Num(33)>>)), Some(NotTuple)}

GpsDict(lat, latref, lon, lonref) ==
    LET all == [k \in 1..4 |-> IF k = 1 THEN latref ELSE IF k = 2 THEN lat
                                ELSE IF k = 3 THEN lonref ELSE lon]
    IN  [py |-> "dict", map |-> [k \in {j \in 1..4 : all[j].some} |-> all[k].v]]

GpsNotMapping == [py |-> "int", map |-> <<>>]

GpsChoices ==
    {None, Some(GpsNotMapping)} \cup
    {Some(GpsDict(lat, latref, lon, lonref)) :
        lat \in CoordChoices(Seoul), latref \in {None, Some("N"), Some("S")},
        lon \in CoordChoices(SeoulLon), lonref \in {None, Some("E"), Some("W")}}

TagNames == {"DateTime", "DateTimeOriginal", "DateTimeDigitized", "GPSInfo"}

MkMeta(dt, dto, dtd, gps) ==
    LET all == [f \in TagNames |->
                   IF f = "DateTime" THEN dt
                   ELSE IF f = "DateTimeOriginal" THEN dto
                   ELSE IF f = "DateTimeDigitized" THEN dtd ELSE gps]
    IN  [f \in {t \in TagNames : all[t].some} |-> all[f].v]

MetadataInputs ==
    {MkMeta(dt, dto, dtd, gps) :
        dt \in TimeTagChoices, dto \in TimeTagChoices,
        dtd \in {None, Some(TimeA), Some(TimeShort)}, gps \in GpsChoices}

NoInfo == [time |-> None, location |-> None, raised |-> FALSE]

\* 23:59:58 on day 0
StartClock == 86400 - 2

GenIdle ==
    /\ gen = NoGen
    /\ hpc = "idle"
    /\ uploaded = <<>>
    /\ style_desc = "natural and relaxed"
    /\ diary_date = ClockDate(StartClock)                 \* date.today()
    /\ temp_dir = FALSE
    /\ temp_files = <<>>
    /\ session = NoSession
    /\ exits = {}

NotesFile == <<"n", "o", "t", "e", "s", ".", "t", "x", "t">>

StoreIdle ==
    /\ disk = (NotesFile :> Garbage)
    /\ now = StartClock
    /\ ticks = 0
    /\ saves = 0
    /\ listing = <<>>
    /\ diagnostics = <<>>
    /\ lastOp = "none"
    /\ prevSave = NoSave
    /\ lastSave = NoSave

InitNormalize ==
    /\ metadata \in MetadataInputs
    /\ info = NoInfo
    /\ npc = "ready"
    /\ GenIdle
    /\ StoreIdle

Normalize ==
    /\ npc = "ready"
    /\ info' = extract_practical_info(metadata)
    /\ npc' = "done"
    /\ UNCHANGED <<metadata, gvars, svars>>

NextNormalize == Normalize

SpecNormalize == InitNormalize /\ [][NextNormalize]_vars

-----------------------------------------------------------------------------
(* SpecGen: generate_natural_diary called on bounded inputs                 *)

MaxImages == 3

GoodGps == GpsDict(Some(Seoul), Some("N"), Some(SeoulLon), Some("E"))

JpegEarly ==
    [size |-> <<4, 3>>, format |-> "JPEG", mode |-> "RGB",
     exif |-> Some(MkMeta(None, Some(TimeA), None, Some(GoodGps)))]
JpegLate ==
    [size |-> <<4, 3>>, format |-> "JPEG", mode |-> "RGB",
     exif |-> Some(MkMeta(Some(TimeB), None, None, None))]
PngPlain ==
    [size |-> <<2, 2>>, format |-> "PNG", mode |-> "RGBA", exif |-> None]

FileLate == [img |-> Some(JpegLate), data |-> Some(<<255, 216, 255, 1>>)]
FileEarly == [img |-> Some(JpegEarly), data |-> Some(<<255, 216, 255>>)]
FilePng == [img |-> Some(PngPlain), data |-> Some(<<137, 80>>)]
FileNotImage == [img |-> None, data |-> Some(<<104>>)]   \* readable, no image
FileMissing == [img |-> None, data |-> None]             \* cannot be opened

DiskFiles == {FileLate, FileEarly, FilePng, FileNotImage, FileMissing}
Uploads == {FileLate, FileEarly, FileNotImage}

Seqs(S, lo, hi) == UNION {[1..k -> S] : k \in lo..hi}

Envs ==
    {[client |-> c, invoke |-> r] :
        c \in {None, Some("api key missing")},
        r \in {[ok |-> TRUE, v |-> "diary text"], [ok |-> FALSE, v |-> "quota exceeded"]}}

DirectStyles == {"concise and clear", "like a pirate"}

NormalizeIdle ==
    /\ metadata = EmptyMap
    /\ info = NoInfo
    /\ npc = "done"

\* before a direct call of generate_natural_diary: no script run, no store
\* operation
InitGen ==
    /\ NormalizeIdle
    /\ GenIdle
    /\ StoreIdle

NextGen ==
    \E paths \in Seqs(DiskFiles, 0, MaxImages), style \in DirectStyles, env \in Envs :
        CallGenerate(paths, style, env) /\ UNCHANGED <<nvars, svars>>

SpecGen == InitGen /\ [][NextGen]_vars

-----------------------------------------------------------------------------
(* SpecApp: handle_diary_generation over uploaded files, run after run     *)

\* the first run of the script has listed the directory (line 249) and
\* stands at handle_diary_generation
InitApp ==
    /\ NormalizeIdle
    /\ GenIdle
    /\ disk = (NotesFile :> Garbage)
    /\ now = StartClock
    /\ ticks = 0
    /\ saves = 0
    /\ listing = load_saved_diaries(disk).diaries
    /\ diagnostics = load_saved_diaries(disk).errors
    /\ lastOp = "listAll"
    /\ prevSave = NoSave
    /\ lastSave = NoSave

NextApp ==
    \/ \E files \in Seqs(Uploads, 1, MaxImages), style \in STYLE_OPTIONS :
          HdgClick(files, style, ClockDate(StartClock)) /\ UNCHANGED <<nvars, svars>>
    \/ HdgWriteTemp /\ UNCHANGED <<nvars, svars>>
    \/ HdgWriteTempFails /\ UNCHANGED <<nvars, svars>>
    \/ \E env \in Envs : HdgGenerate(env) /\ UNCHANGED <<nvars, svars>>
    \/ HdgRerun /\ UNCHANGED nvars

SpecApp == InitApp /\ [][NextApp]_vars

-----------------------------------------------------------------------------
(* SpecStore: save_diary and load_saved_diaries against a moving clock     *)

MaxSaves == 2
MaxTicks == 1

\* the dates picked in the date input
DiaryDates == {Calendar[1], Calendar[2]}
\* what the text area holds when the save button is pressed: the generated
\* text as it is, or an edited one
EditedTexts(generated) == {generated, <<"walked in the park">>}
\* the photos, the style and the capability of the generations before a save
StoreUploads == {<<FileLate>>}
StoreStyles == {"natural and relaxed"}
StoreEnvs == {[client |-> None, invoke |-> [ok |-> TRUE, v |-> "diary text"]]}
\* a second, or a day less the two seconds a completed save sleeps
TickSteps == {1, 86400 - 2}
\* the microsecond of the second clock reading
MicroChoices == {123456}
IoOutcomes == {"ok", "open_fails", "write_fails"}

\* the directory holds a day file of an earlier day: corrupt, or with one entry
OldDayFile == DayFile(<<2024, 1, 30>>)
OldEntry ==
    [content |-> <<"old entry">>, style |-> "natural", image_count |-> 3,
     created_at |-> StrfDate(<<2024, 1, 30>>) \o <<"T">> \o StrfTime(StartClock)]
OldDocument == JsonText(<<[k |-> StrfTime(StartClock), v |-> OldEntry]>>)

\* the first run of the script has listed the directory (line 249) and
\* stands at the handler
InitStore ==
    /\ NormalizeIdle
    /\ GenIdle
    /\ disk \in {(NotesFile :> Garbage) @@ (OldDayFile :> Garbage),
                 (NotesFile :> Garbage) @@ (OldDayFile :> OldDocument)}
    /\ now = StartClock
    /\ ticks = 0
    /\ saves = 0
    /\ listing = load_saved_diaries(disk).diaries
    /\ diagnostics = load_saved_diaries(disk).errors
    /\ lastOp = "listAll"
    /\ prevSave = NoSave
    /\ lastSave = NoSave

\* lines 416-421: the arguments of save_diary, edited_diary being the text
\* of the text area and the rest the metadata kept since the generation
SaveCall(edited_diary, md) ==
    [content |-> edited_diary, date |-> md.date, style |-> md.style,
     image_count |-> md.image_count]

\* lines 414-434: the save button is
\* pressed; the clock may advance by dt between the two datetime.now() of
\* lines 99 and 104
SavePressed(call, dt, us, io) ==
    /\ saves < MaxSaves
    /\ ticks + dt <= MaxTicks
    /\ SaveDone(save_diary(disk, call, now, now + dt, us, io), DayFile(call.date), now)
    /\ now' = now + dt
    /\ ticks' = ticks + dt
    /\ saves' = saves + 1
    /\ UNCHANGED <<gen, uploaded, style_desc, diary_date, temp_dir, temp_files, exits>>

\* lines 377-378 and 396-434: a generated diary is on display, the text area
\* holds edited_diary and the save button is pressed
Save(edited_diary, dt, us, io) ==
    /\ hpc = "idle"
    /\ session.present
    /\ session.value.some
    /\ edited_diary \in EditedTexts(session.value.v)
    /\ SavePressed(SaveCall(edited_diary, session.metadata.v), dt, us, io)

\* lines 427-430: after a save that returned, time.sleep(2), both session
\* keys deleted, st.rerun(): the run that it starts lists the saved diaries
\* (line 249) and reaches the handler
SaveRerun ==
    /\ hpc = "saved"
    /\ now' = now + 2
    /\ session' = NoSession
    /\ hpc' = "idle"
    /\ Listed(load_saved_diaries(disk))
    /\ UNCHANGED <<gen, uploaded, style_desc, diary_date, temp_dir, temp_files, exits>>
    /\ UNCHANGED <<disk, ticks, saves, prevSave, lastSave>>

\* time passes between runs
Tick(d) ==
    /\ hpc = "idle"
    /\ ticks < MaxTicks
    /\ now' = now + d
    /\ ticks' = ticks + 1
    /\ UNCHANGED <<disk, saves, listing, diagnostics, lastOp, prevSave, lastSave>>

AllTexts == UNION {EditedTexts(<<e.invoke.v>>) : e \in StoreEnvs}

NextStore ==
    \/ \E files \in StoreUploads, style \in StoreStyles, date \in DiaryDates :
          HdgClick(files, style, date) /\ UNCHANGED <<nvars, svars>>
    \/ HdgWriteTemp /\ UNCHANGED <<nvars, svars>>
    \/ \E env \in StoreEnvs : HdgGenerate(env) /\ UNCHANGED <<nvars, svars>>
    \/ HdgRerun /\ UNCHANGED nvars
    \/ \E text \in AllTexts, dt \in {0, 1}, us \in MicroChoices, io \in IoOutcomes :
          Save(text, dt, us, io) /\ UNCHANGED nvars
    \/ SaveRerun /\ UNCHANGED nvars
    \/ \E d \in TickSteps : Tick(d) /\ UNCHANGED <<nvars, gvars>>

SpecStore == InitStore /\ [][NextStore]_vars

-----------------------------------------------------------------------------
(* Claims on extract_practical_info                                        *)

CapturePriority == <<"DateTimeOriginal", "DateTimeDigitized", "DateTime">>

\* C4: the capture time comes from the first valid tag in the order
\* DateTimeOriginal, DateTimeDigitized, DateTime; an invalid tag of higher
\* priority is skipped in favour of the next.
C4_CaptureTimePriority ==
    npc = "done" =>
        LET valid == {i \in 1..3 : TimeTagUsable(metadata, CapturePriority[i])}
        IN  IF valid = {} THEN info.time = None
            ELSE LET first == CHOOSE i \in valid : \A j \in valid : i <= j
                 IN  info.time = Some(FormatTime(metadata[CapturePriority[first]]))

\* the coordinate under key k of the GPS group is a 3-tuple of numbers
Decodes(md, k) ==
    /\ "GPSInfo" \in DOMAIN md
    /\ md["GPSInfo"].py = "dict"
    /\ k \in DOMAIN md["GPSInfo"].map
    /\ md["GPSInfo"].map[k].py = "tuple"
    /\ Len(md["GPSInfo"].map[k].comps) = 3
    /\ \A i \in 1..3 : md["GPSInfo"].map[k].comps[i].num

\* C5: extract_practical_info never raises, and the location is present
\* exactly when both latitude and longitude decoded.
C5_LocationIffBothDecode ==
    npc = "done" =>
        /\ ~info.raised
        /\ info.location.some <=> (Decodes(metadata, 2) /\ Decodes(metadata, 4))

\* a hemisphere reference negates a coordinate that did not decode: the
\* error is swallowed and the location is absent
C5_Witness ==
    /\ npc = "done"
    /\ GpsPresent(metadata)
    /\ GpsBody(metadata["GPSInfo"]).st = "raise"
    /\ Decodes(metadata, 4)
    /\ ~info.location.some
    /\ ~info.raised

-----------------------------------------------------------------------------
(* Claims on generate_natural_diary and handle_diary_generation            *)

CapabilityFailed(env) == env.client.some \/ ~env.invoke.ok
ErrorDetail(env) == IF env.client.some THEN env.client.v ELSE env.invoke.v

\* C1: whenever the generation capability fails, obtaining the client
\* included, generate does not raise and returns the fallback narrative,
\* which holds the error detail exactly once.
C1_FallbackOnAnyFailure ==
    (gen.called /\ CapabilityFailed(gen.env)) =>
        /\ ~gen.raised.some
        /\ gen.result.some
        /\ gen.result.v[1] = "FALLBACK-HEAD: "
        /\ Cardinality({i \in 1..Len(gen.result.v) :
                           gen.result.v[i] = ErrorDetail(gen.env)}) = 1

HintBody(h) == SubSeq(h, 4, Len(h))

\* C2: once the per-image loop has run, there is one hint per image path,
\* hint i carries number i, and an image whose extraction failed has the
\* "no metadata" hint.
C2_OneHintPerImage ==
    (gen.called /\ ~gen.raised.some) =>
        /\ Len(gen.practical_hints) = Len(gen.image_paths)
        /\ \A i \in 1..Len(gen.image_paths) :
              /\ i <= Len(gen.practical_hints)
              /\ gen.practical_hints[i][2] = i
              /\ ~gen.image_paths[i].img.some
                    => HintBody(gen.practical_hints[i]) = NoMetadata
              /\ (gen.image_paths[i].img.some /\ gen.image_paths[i].img.v.exif.some)
                    => HintBody(gen.practical_hints[i]) # NoMetadata

\* a call over three paths of which the middle one is missing altogether
C2_Witness ==
    /\ gen.called
    /\ ~gen.raised.some
    /\ Len(gen.image_paths) = 3
    /\ gen.image_paths[1].img.some
    /\ gen.image_paths[2] = FileMissing
    /\ gen.image_paths[3] = FileNotImage
    /\ Len(gen.practical_hints) = 3

\* C3: the request carries one payload per input image, payload k being the
\* encoding of image k, whatever failed per image.
C3_PayloadPerImageInOrder ==
    gen.sent =>
        LET payloads == Tail(gen.message_content)
        IN  /\ Len(payloads) = Len(gen.image_paths)
            /\ \A k \in 1..Len(gen.image_paths) :
                  (k <= Len(payloads) /\ gen.image_paths[k].data.some) =>
                      payloads[k] = ImageContent(b64encode(gen.image_paths[k].data.v))

\* C8: a style outside the enumerated labels makes generate raise before any
\* request is sent.
C8_UnknownStyleFailsFast ==
    (gen.called /\ gen.style \notin STYLE_OPTIONS) =>
        (gen.raised.some /\ ~gen.sent)

\* C10: when handle_diary_generation has returned, the temporary directory
\* and the copies in it are gone.
C10_TempCopiesGoneOnReturn ==
    hpc = "returned" => (~temp_dir /\ temp_files = <<>>)

\* the handler has returned, and over its runs it has left by all three paths
C10_Witness ==
    /\ hpc = "returned"
    /\ exits = {"success", "write_error", "generate_error"}
    /\ gen.called
    /\ gen.raised.some
    /\ ~temp_dir

-----------------------------------------------------------------------------
(* Claims on save_diary and load_saved_diaries                             *)

\* the latest two successful saves went to the same date
SameDatePair == lastSave.n >= 2 /\ prevSave.file = lastSave.file

\* C6: two successful saves for one date made in different seconds of the
\* wall clock leave a day document with two distinct entries, one per call,
\* each with that call's content.
C6_DifferentInstantsTwoEntries ==
    (lastOp = "save" /\ SameDatePair /\ prevSave.t # lastSave.t) =>
        /\ disk[lastSave.file].json
        /\ DictHas(disk[lastSave.file].data, prevSave.key)
        /\ DictGet(disk[lastSave.file].data, prevSave.key) = prevSave.entry
        /\ DictGet(disk[lastSave.file].data, lastSave.key) = lastSave.entry
        /\ prevSave.key # lastSave.key

JsonNames == {n \in DOMAIN disk : IsJsonName(n)}

\* C7: load_saved_diaries returns exactly the parseable day files under their
\* date strings, reports each unparseable one once, and the returned mapping
\* iterates in descending order of the date string.
C7_ListingSkipsCorrupt ==
    lastOp = "listAll" =>
        /\ DictKeys(listing) = {Stem(n) : n \in {m \in JsonNames : disk[m].json}}
        /\ \A n \in JsonNames :
              disk[n].json => DictGet(listing, Stem(n)) = disk[n].data
        /\ Len(listing) = Cardinality({m \in JsonNames : disk[m].json})
        /\ {diagnostics[i] : i \in 1..Len(diagnostics)} = {m \in JsonNames : ~disk[m].json}
        /\ Len(diagnostics) = Cardinality({m \in JsonNames : ~disk[m].json})
        /\ \A i, j \in 1..Len(listing) :
              i < j => StrLess(listing[j].k, listing[i].k)

\* two parseable day files listed, newest first, and a corrupt one reported
C7_Witness ==
    /\ lastOp = "listAll"
    /\ Len(listing) = 2
    /\ listing[1].k = StrfDate(Calendar[2])
    /\ listing[2].k = StrfDate(Calendar[1])
    /\ diagnostics = <<OldDayFile>>

\* C9: a successful save for date D leaves every other entry of D's document
\* and every other file as it was; only the entry under the key it wrote may
\* change, so no document loses entries.
C9_SaveLeavesOthersAlone ==
    [][ lastSave'.n = lastSave.n + 1 =>
          \A name \in DOMAIN disk :
             /\ name \in DOMAIN disk'
             /\ name # lastSave'.file => disk'[name] = disk[name]
             /\ disk[name].json =>
                  /\ disk'[name].json
                  /\ Len(disk'[name].data) >= Len(disk[name].data)
                  /\ \A k \in DictKeys(disk[name].data) :
                        /\ DictHas(disk'[name].data, k)
                        /\ (name # lastSave'.file \/ k # lastSave'.key)
                              => DictGet(disk'[name].data, k) = DictGet(disk[name].data, k) ]_vars

\* a second entry was added to a day document while another day's document
\* with an entry of its own lay beside it
C9_Witness ==
    /\ lastOp = "save"
    /\ SameDatePair
    /\ Len(disk[lastSave.file].data) = 2
    /\ disk[OldDayFile] = OldDocument

-----------------------------------------------------------------------------
(* Claims on failing saves and on the timestamps of entries                *)

\* the step is a call of save_diary that raised
SaveRaised == saves' = saves + 1 /\ lastOp' = "save_raised"

\* C11: when save_diary fails (the day file does not parse, open for writing
\* fails, or json.dump fails part-way) the exception reaches the caller and
\* every file that was in the directory, the day document of the call's date
\* included, is exactly as it was before the call.
C11_FailedSaveLeavesDocument ==
    [][ SaveRaised =>
          \A name \in DOMAIN disk :
             name \in DOMAIN disk' /\ disk'[name] = disk[name] ]_vars

\* the calendar date and the time of day, cut to seconds, of an isoformat text
IsoDatePart(s) == SubSeq(s, 1, 10)
IsoTimePart(s) == SubSeq(s, 12, 19)

\* C12: in every day document of date D every entry under key K has a
\* created_at whose calendar date is D and whose time of day, cut to seconds,
\* is K.
C12_EntryAgreesWithCreatedAt ==
    \A name \in JsonNames :
       disk[name].json =>
          \A i \in 1..Len(disk[name].data) :
             /\ IsoDatePart(disk[name].data[i].v.created_at) = Stem(name)
             /\ IsoTimePart(disk[name].data[i].v.created_at) = disk[name].data[i].k

====
